---- MODULE Spec2Model ----
(***************************************************************************)
(* Colour primitives of prisma: Rgb chroma/hue extraction, per-channel     *)
(* invert / lerp / normalize, and the YCbCr <-> RGB bridge.                *)
(*                                                                         *)
(* Every operation of the library is a pure function of its receiver and   *)
(* arguments.  The state is therefore one call: the storage type T the     *)
(* generic code is instantiated with, the receiver, the arguments, and,    *)
(* once the call has been made, its outcome (a value or a panic).          *)
(*                                                                         *)
(* Storage types:                                                          *)
(*   "u8"   8-bit unsigned integers, TLA+ integers in 0 .. 255;            *)
(*   "f32"  IEEE-754 binary32, round to nearest even, 24-bit significand,  *)
(*          exponent range unbounded: pairs <<m, e>> standing for m * 2^e. *)
(* The f64 intermediate values of lerp and to_rgb are pairs <<m, e>> too;  *)
(* their arithmetic is exact, which is what f64 does whenever the result   *)
(* has at most 53 significant bits, and every significand formed here has  *)
(* fewer than 31.                                                          *)
(***************************************************************************)
EXTENDS Integers, Sequences, FiniteSets

VARIABLES storage, self, right, pos, model, out_of_gamut_mode,
          overflow_checks, op, out

vars == <<storage, self, right, pos, model, out_of_gamut_mode,
          overflow_checks, op, out>>

(***************************************************************************)
(* Outcomes of a call.                                                     *)
(***************************************************************************)
Ok(v) == [ok |-> TRUE, val |-> v]

Panic == [ok |-> FALSE, val |-> <<>>]

NoCall == [ok |-> TRUE, val |-> <<>>]

(***************************************************************************)
(* Integer helpers.                                                        *)
(***************************************************************************)
Abs(x) == IF x < 0 THEN -x ELSE x

\* 2^k for k in 0 .. 30.
Pow2Table[k \in 0 .. 30] == IF k = 0 THEN 1 ELSE 2 * Pow2Table[k - 1]

Pow2(k) == Pow2Table[k]

(***************************************************************************)
(* binary32 numbers: <<m, e>> stands for m * 2^e; m is odd, or <<0, 0>>.   *)
(* Results are rounded to MantBits significant bits, to nearest, ties to   *)
(* even.  Every integer formed below stays under 2^31.                     *)
(***************************************************************************)
MantBits == 24

\* The number of bits of n, 0 < n < 2^31.
BitLen(n) ==
    CHOOSE r \in {CHOOSE k \in 1 .. 31 : Pow2(k - 1) <= a /\ (k = 31 \/ a < Pow2(k)) :
                  a \in {n}} : TRUE

\* The number of trailing zero bits of m, 0 < |m| < 2^30.
TrailingZeros(m) ==
    CHOOSE r \in {CHOOSE k \in 0 .. 29 : a % Pow2(k) = 0 /\ a % Pow2(k + 1) # 0 :
                  a \in {m}} : TRUE

\* m * 2^e in canonical form.
FCanon(m, e) ==
    CHOOSE r \in {IF a = 0 THEN <<0, 0>>
                  ELSE LET z == TrailingZeros(Abs(a))
                       IN  <<(IF a < 0 THEN -1 ELSE 1) * (Abs(a) \div Pow2(z)), b + z>> :
                  a \in {m}, b \in {e}} : TRUE

\* |x| with its significand shifted up to exactly MantBits bits: <<tm, te>>.
FTop(x) ==
    CHOOSE r \in {LET n == BitLen(Abs(a[1]))
                  IN  <<Abs(a[1]) * Pow2(MantBits - n), a[2] - (MantBits - n)>> :
                  a \in {x}} : TRUE

\* sign * (M + f) * 2^E rounded, where 0 < f < 1 if sticky and f = 0 if not;
\* M > 0, and M has at least MantBits + 1 bits when sticky.
FRound(sign, M, E, sticky) ==
    CHOOSE r \in {IF k <= 0 THEN FCanon(sign * M, E)
                  ELSE LET q    == M \div Pow2(k)
                           rem  == M % Pow2(k)
                           half == Pow2(k - 1)
                           up   == \/ rem > half
                                   \/ rem = half /\ (sticky \/ q % 2 = 1)
                       IN  FCanon(sign * (IF up THEN q + 1 ELSE q), E + k) :
                  k \in {BitLen(M) - MantBits}} : TRUE

FSign(x) == IF x[1] > 0 THEN 1 ELSE IF x[1] < 0 THEN -1 ELSE 0

FNeg(x) == <<-x[1], x[2]>>

\* |x| < |y| for non-zero x and y.
FMagLt(x, y) ==
    CHOOSE r \in {a[2] < b[2] \/ (a[2] = b[2] /\ a[1] < b[1]) :
                  a \in {FTop(x)}, b \in {FTop(y)}} : TRUE

FLt(x, y) ==
    CHOOSE r \in {IF FSign(a) # FSign(b) THEN FSign(a) < FSign(b)
                  ELSE IF FSign(a) = 0 THEN FALSE
                  ELSE IF FSign(a) > 0 THEN FMagLt(a, b) ELSE FMagLt(b, a) :
                  a \in {x}, b \in {y}} : TRUE

\* big + small for non-zero operands with |small| <= |big|, on three extra
\* bits (guard, round, sticky) below big's last significand bit.
FAddOrdered(big, small) ==
    LET tb     == FTop(big)
        ts     == FTop(small)
        d      == tb[2] - ts[2]
        lost   == IF d <= 3 THEN 0 ELSE IF d - 3 >= MantBits THEN MantBits ELSE d - 3
        sm     == IF d <= 3 THEN ts[1] * Pow2(3 - d) ELSE ts[1] \div Pow2(lost)
        sticky == d > 3 /\ ts[1] % Pow2(lost) # 0
        same   == FSign(big) = FSign(small)
        M      == IF same THEN tb[1] * 8 + sm
                  ELSE IF sticky THEN tb[1] * 8 - sm - 1 ELSE tb[1] * 8 - sm
    IN  IF M = 0 THEN <<0, 0>> ELSE FRound(FSign(big), M, tb[2] - 3, sticky)

FAdd(x, y) ==
    CHOOSE r \in {IF FSign(a) = 0 THEN b
                  ELSE IF FSign(b) = 0 THEN a
                  ELSE IF FMagLt(a, b) THEN FAddOrdered(b, a) ELSE FAddOrdered(a, b) :
                  a \in {x}, b \in {y}} : TRUE

FSub(x, y) == FAdd(x, FNeg(y))

\* The product of the significands is formed exactly; one operand of every
\* product formed here (6, or a lerp position) has at most three bits.
FMul(x, y) ==
    CHOOSE r \in {IF a[1] = 0 \/ b[1] = 0 THEN <<0, 0>>
                  ELSE FRound(FSign(a) * FSign(b), Abs(a[1]) * Abs(b[1]), a[2] + b[2], FALSE) :
                  a \in {x}, b \in {y}} : TRUE

\* Long division, six bits at a time: <<q, r, s>> with n * 2^s = q * d + r,
\* 0 <= r < d < 2^25, carried on until q has at least MantBits + 2 bits.
RECURSIVE DivBits(_, _, _, _)
DivBits(q, r, d, s) ==
    CHOOSE v \in {IF a >= Pow2(MantBits + 1) THEN <<a, b, c>>
                  ELSE DivBits(64 * a + (64 * b) \div d, (64 * b) % d, d, c + 6) :
                  a \in {q}, b \in {r}, c \in {s}} : TRUE

\* (n / d) * 2^e rounded, for integers n > 0, d > 0.
FRatio(sign, n, d, e) ==
    CHOOSE r \in {FRound(sign, v[1], e - v[3], v[2] # 0) :
                  v \in {DivBits(n \div d, n % d, d, 0)}} : TRUE

FDiv(x, y) ==
    CHOOSE r \in {IF a[1] = 0 THEN <<0, 0>>
                  ELSE FRatio(FSign(a) * FSign(b), Abs(a[1]), Abs(b[1]), a[2] - b[2]) :
                  a \in {x}, b \in {y}} : TRUE

FAbs(x) == <<Abs(x[1]), x[2]>>


(***************************************************************************)
(* f64 values and their arithmetic, exact on the values formed here.       *)
(***************************************************************************)
F64Add(x, y) ==
    CHOOSE r \in {LET e == IF a[2] < b[2] THEN a[2] ELSE b[2]
                  IN  FCanon(a[1] * Pow2(a[2] - e) + b[1] * Pow2(b[2] - e), e) :
                  a \in {x}, b \in {y}} : TRUE

F64Sub(x, y) == F64Add(x, FNeg(y))

F64Mul(x, y) ==
    CHOOSE r \in {FCanon(a[1] * b[1], a[2] + b[2]) : a \in {x}, b \in {y}} : TRUE

F64Lt(x, y) == F64Sub(x, y)[1] < 0

\* The integer part of x, toward zero (|x| < 2^31).
F64Trunc(x) ==
    CHOOSE r \in {IF a[2] >= 0 THEN a[1] * Pow2(a[2])
                  ELSE IF a[2] < -30 THEN 0
                  ELSE FSign(a) * (Abs(a[1]) \div Pow2(-a[2])) :
                  a \in {x}} : TRUE

(***************************************************************************)
(* The storage type's operations, as the generic code uses them.           *)
(***************************************************************************)
ChanMax == 255

ChanModulus == 256

\* PartialOrd::lt on T.
Lt(T, x, y) == IF T = "u8" THEN x < y ELSE FLt(x, y)

Le(T, x, y) == ~Lt(T, y, x)

\* Sub::sub on T.  An unsigned subtraction below zero panics when the build
\* checks overflow and wraps modulo 2^8 when it does not.
Sub(T, x, y, checks) ==
    IF T = "u8"
    THEN IF x >= y THEN Ok(x - y)
         ELSE IF checks THEN Panic ELSE Ok((x - y) % ChanModulus)
    ELSE Ok(FSub(x, y))

\* Add::add on T, likewise.
Add(T, x, y, checks) ==
    IF T = "u8"
    THEN IF x + y <= ChanMax THEN Ok(x + y)
         ELSE IF checks THEN Panic ELSE Ok((x + y) % ChanModulus)
    ELSE Ok(FAdd(x, y))

\* num::cast of the f64 literal a / b into f32 (the literals of the code are
\* -1.0, -1.0/3.0, 6.0 and 1e-10; none is near a rounding tie of binary32).
Cast(a, b) ==
    IF a = 0 THEN <<0, 0>> ELSE FRatio(IF a < 0 THEN -1 ELSE 1, Abs(a), b, 0)

\* mem::swap of two of the three locals.
Swap(c, i, j) == [c EXCEPT ![i] = c[j], ![j] = c[i]]

(***************************************************************************)
(* Rgb::get_chroma.                                                        *)
(***************************************************************************)
get_chroma(T, color, checks) ==
    LET s1 == IF Lt(T, color[2], color[3]) THEN Swap(color, 2, 3) ELSE color
        s2 == IF Lt(T, s1[1], s1[2]) THEN Swap(s1, 1, 3) ELSE s1
        s3 == IF Lt(T, s2[2], s2[3]) THEN Swap(s2, 2, 3) ELSE s2
    IN  Sub(T, s3[1], s3[3], checks)

(***************************************************************************)
(* Inputs.                                                                 *)
(***************************************************************************)
HalfSteps == 2

U8Values == {0, 55, 100, 127, 150, 200, 255}

\* The f32 values nearest k / (2 * HalfSteps), 0 to 1.
F32Grid == {Cast(k, 2 * HalfSteps) : k \in 0 .. 2 * HalfSteps}

Values(T) == IF T = "u8" THEN U8Values ELSE F32Grid

Colors(T) == Values(T) \X Values(T) \X Values(T)

Unused ==
    /\ right = <<0, 0, 0>>
    /\ pos = <<0, 0>>
    /\ model = "none"
    /\ out_of_gamut_mode = "Preserve"

(***************************************************************************)
(* get_chroma called once on an arbitrary colour.                          *)
(***************************************************************************)
InitChroma ==
    /\ storage \in {"u8", "f32"}
    /\ self \in Colors(storage)
    /\ overflow_checks \in (IF storage = "u8" THEN BOOLEAN ELSE {TRUE})
    /\ Unused
    /\ op = "new"
    /\ out = NoCall

GetChroma ==
    /\ op = "new"
    /\ op' = "get_chroma"
    /\ out' = get_chroma(storage, self, overflow_checks)
    /\ UNCHANGED <<storage, self, right, pos, model, out_of_gamut_mode, overflow_checks>>

NextChroma == GetChroma

SpecChroma == InitChroma /\ [][NextChroma]_vars

\* Largest and smallest channel, by comparison only.
MaxChan(T, c) ==
    CHOOSE x \in {c[1], c[2], c[3]} : \A y \in {c[1], c[2], c[3]} : ~Lt(T, x, y)

MinChan(T, c) ==
    CHOOSE x \in {c[1], c[2], c[3]} : \A y \in {c[1], c[2], c[3]} : ~Lt(T, y, x)

\* C1: get_chroma returns max(c1,c2,c3) - min(c1,c2,c3) for every triple, in
\* every ordering of the channels; the subtraction never has a minuend below
\* its subtrahend.
C1_ChromaIsMaxMinusMin ==
    op = "get_chroma" =>
        out = Sub(storage, MaxChan(storage, self), MinChan(storage, self), TRUE)

(***************************************************************************)
(* get_hue_factor_and_ordered_chans and Rgb::get_hue, for T = f32.  The    *)
(* result is the scalar handed to angle::Turns.                            *)
(***************************************************************************)
\* cast(1e-10): the f32 nearest 1e-10; 10^10 = 2^10 * 5^10.
Epsilon == FRatio(1, 1, 9765625, -10)

\* Float::min.
FMin(x, y) == IF FLt(y, x) THEN y ELSE x

\* get_hue_factor_and_ordered_chans with the sign of the first swap lost in
\* the second: -1/3 + scaling_factor for -1/3 - scaling_factor.
HueFactorSignLost(color) ==
    LET swap1 == FLt(color[2], color[3])
        a     == IF swap1 THEN Swap(color, 2, 3) ELSE color
        sf1   == IF swap1 THEN Cast(-1, 1) ELSE <<0, 0>>
        swap2 == FLt(a[1], a[2])
        b     == IF swap2 THEN Swap(a, 1, 2) ELSE a
    IN  [scaling_factor |-> IF swap2 THEN FAdd(Cast(-1, 3), sf1) ELSE sf1,
         c1 |-> b[1], c2 |-> b[2], c3 |-> b[3],
         min_chan |-> IF swap2 THEN FMin(b[2], b[3]) ELSE a[3]]

get_hue_factor_and_ordered_chans(color) ==
    LET swap1 == FLt(color[2], color[3])
        a     == IF swap1 THEN Swap(color, 2, 3) ELSE color
        sf1   == IF swap1 THEN Cast(-1, 1) ELSE <<0, 0>>
        swap2 == FLt(a[1], a[2])
        b     == IF swap2 THEN Swap(a, 1, 2) ELSE a
    IN  [scaling_factor |-> IF swap2 THEN FSub(Cast(-1, 3), sf1) ELSE sf1,
         c1 |-> b[1], c2 |-> b[2], c3 |-> b[3],
         min_chan |-> IF swap2 THEN FMin(b[2], b[3]) ELSE a[3]]

get_hue(color) ==
    LET epsilon == Epsilon
        h == get_hue_factor_and_ordered_chans(color)
        hue_scalar ==
            FAdd(h.scaling_factor,
                 FDiv(FSub(h.c2, h.c3),
                      FAdd(FMul(Cast(6, 1), FSub(h.c1, h.min_chan)), epsilon)))
    IN  FAbs(hue_scalar)

(***************************************************************************)
(* get_hue called once on an Rgb<f32> of the grid.                         *)
(***************************************************************************)
InitHue ==
    /\ storage = "f32"
    /\ self \in Colors("f32")
    /\ overflow_checks = TRUE
    /\ Unused
    /\ op = "new"
    /\ out = NoCall

GetHue ==
    /\ op = "new"
    /\ op' = "get_hue"
    /\ out' = Ok(get_hue(self))
    /\ UNCHANGED <<storage, self, right, pos, model, out_of_gamut_mode, overflow_checks>>

NextHue == GetHue

SpecHue == InitHue /\ [][NextHue]_vars

\* The six-sector hue of the HSL/HSV family, as a fraction of a turn, for a
\* colour of non-zero chroma, evaluated in f32.
StdHue(c) ==
    LET mx == MaxChan("f32", c)
        mn == MinChan("f32", c)
        ch == FSub(mx, mn)
        h6 == IF mx = c[1]
              THEN LET h == FDiv(FSub(c[2], c[3]), ch)
                   IN  IF FSign(h) < 0 THEN FAdd(h, Cast(6, 1)) ELSE h
              ELSE IF mx = c[2]
              THEN FAdd(FDiv(FSub(c[3], c[1]), ch), Cast(2, 1))
              ELSE FAdd(FDiv(FSub(c[1], c[2]), ch), Cast(4, 1))
    IN  FDiv(h6, Cast(6, 1))

Chromatic(c) == ~(c[1] = c[2] /\ c[2] = c[3])

\* 2^-20, just under 1e-6.
HueTolerance == <<1, -20>>

Near(x, y) == ~FLt(HueTolerance, FAbs(FSub(x, y)))

HueOf(r, g, b) == <<Cast(r, 2), Cast(g, 2), Cast(b, 2)>>

\* C2: for every triple of non-zero chroma get_hue equals the six-sector hue
\* in turns up to the epsilon term (within 2^-20 < 1e-6); red is 0, green
\* 1/3, blue 2/3, yellow (0.5,0.5,0) 1/6 and magenta (0.5,0,0.5) 5/6.
C2_HueIsSixSectorHue ==
    op = "get_hue" =>
        /\ Chromatic(self) => Near(out.val, StdHue(self))
        /\ self = HueOf(2, 0, 0) => Near(out.val, Cast(0, 1))
        /\ self = HueOf(0, 2, 0) => Near(out.val, Cast(1, 3))
        /\ self = HueOf(0, 0, 2) => Near(out.val, Cast(2, 3))
        /\ self = HueOf(1, 1, 0) => Near(out.val, Cast(1, 6))
        /\ self = HueOf(1, 0, 1) => Near(out.val, Cast(5, 6))

C2_Witness ==
    /\ op = "get_hue"
    /\ self = HueOf(1, 0, 1)
    /\ Near(out.val, Cast(5, 6))
    /\ ~Near(out.val, Cast(1, 6))

(***************************************************************************)
(* get_hue called once on an Rgb<f32> with channels as small as 2^-30.     *)
(***************************************************************************)
F32Values == {<<0, 0>>, <<1, 0>>, <<1, -1>>, <<3, -2>>, <<1, -30>>}

InitHueSmall ==
    /\ storage = "f32"
    /\ self \in F32Values \X F32Values \X F32Values
    /\ overflow_checks = TRUE
    /\ Unused
    /\ op = "new"
    /\ out = NoCall

SpecHueSmall == InitHueSmall /\ [][NextHue]_vars

\* C10: for every RGB triple, achromatic ones and ties included, the
\* turn-fraction get_hue returns lies in [0, 1): it is never negative and
\* never reaches 1.
C10_HueInUnitRange ==
    op = "get_hue" =>
        /\ ~FLt(out.val, <<0, 0>>)
        /\ FLt(out.val, <<1, 0>>)


(***************************************************************************)
(* Channel operations (channel module): a bounded channel spans the        *)
(* storage range, 0 .. 255 for u8 and 0 .. 1 for floats; a positive        *)
(* normalized channel has the canonical range 0 .. 1 and a bipolar one     *)
(* -1 .. 1 (0 .. 255 in u8 storage for both).                              *)
(***************************************************************************)
MinBound(T, kind) ==
    IF T = "u8" THEN 0 ELSE IF kind = "normal" THEN <<-1, 0>> ELSE <<0, 0>>

MaxBound(T, kind) == IF T = "u8" THEN ChanMax ELSE <<1, 0>>

\* BoundedChannel::invert: max - (v - min); a normalized channel: max - v.
channel_invert(T, kind, v) ==
    IF T = "u8" THEN MaxBound(T, kind) - (v - MinBound(T, kind))
    ELSE IF kind = "bounded"
    THEN FSub(MaxBound(T, kind), FSub(v, MinBound(T, kind)))
    ELSE FSub(MaxBound(T, kind), v)

channel_is_normalized(T, kind, v) ==
    Le(T, MinBound(T, kind), v) /\ Le(T, v, MaxBound(T, kind))

\* normalize: the value clamped into the canonical range.
channel_normalize(T, kind, v) ==
    IF Lt(T, v, MinBound(T, kind)) THEN MinBound(T, kind)
    ELSE IF Lt(T, MaxBound(T, kind), v) THEN MaxBound(T, kind)
    ELSE v

\* x >= 0 rounded to the nearest integer; a value halfway between two
\* integers goes to the one nearer zero (127.5 to 127).
RoundHalfToZero(x) ==
    CHOOSE r \in {IF F64Lt(<<1, -1>>, F64Sub(a, FCanon(F64Trunc(a), 0)))
                  THEN F64Trunc(a) + 1 ELSE F64Trunc(a) : a \in {x}} : TRUE

\* Lerp of one integer scalar that casts v1 + (v2 - v1) * t back without
\* rounding, which drops the fraction.
ChannelLerpTruncates(T, v1, v2, t) ==
    IF T = "u8"
    THEN F64Trunc(F64Add(FCanon(v1, 0), F64Mul(F64Sub(FCanon(v2, 0), FCanon(v1, 0)), t)))
    ELSE FAdd(FMul(v1, FSub(<<1, 0>>, t)), FMul(v2, t))

\* Lerp of one float scalar evaluated as v1 + (v2 - v1) * t in the storage
\* type: at t = 1 the rounding of v2 - v1 is added back to v1.
ChannelLerpOneProduct(T, v1, v2, t) ==
    IF T = "u8"
    THEN RoundHalfToZero(F64Add(FCanon(v1, 0),
                                F64Mul(F64Sub(FCanon(v2, 0), FCanon(v1, 0)), t)))
    ELSE FAdd(v1, FMul(FSub(v2, v1), t))

\* Lerp of one scalar, the linear interpolation v1 + (v2 - v1) * t with
\* lerp(a, b, 0) = a and lerp(a, b, 1) = b.
\*   u8  (Position = f64): computed in f64 and rounded to the nearest
\*        integer; of the tie rules only the one towards zero gives the
\*        127 that test_lerp_int requires of lerp(0, 255, 0.5).
\*   f32 (Position = f32): computed in f32 as v1 * (1 - t) + v2 * t, the
\*        evaluation of the interpolation whose two end points are exact
\*        in floating point.
channel_lerp(T, v1, v2, t) ==
    IF T = "u8"
    THEN RoundHalfToZero(F64Add(FCanon(v1, 0),
                                F64Mul(F64Sub(FCanon(v2, 0), FCanon(v1, 0)), t)))
    ELSE FAdd(FMul(v1, FSub(<<1, 0>>, t)), FMul(v2, t))

(***************************************************************************)
(* Rgb: invert, normalize, is_normalized and lerp, channel by channel.     *)
(***************************************************************************)
RgbKinds == <<"bounded", "bounded", "bounded">>

YCbCrKinds == <<"posnormal", "normal", "normal">>

\* Rgb::invert that leaves the blue channel as it is.
RgbInvertSkipsBlue(T, c) ==
    <<channel_invert(T, RgbKinds[1], c[1]),
      channel_invert(T, RgbKinds[2], c[2]),
      c[3]>>

rgb_invert(T, c) ==
    <<channel_invert(T, RgbKinds[1], c[1]),
      channel_invert(T, RgbKinds[2], c[2]),
      channel_invert(T, RgbKinds[3], c[3])>>

rgb_normalize(T, c) ==
    <<channel_normalize(T, RgbKinds[1], c[1]),
      channel_normalize(T, RgbKinds[2], c[2]),
      channel_normalize(T, RgbKinds[3], c[3])>>

rgb_is_normalized(T, c) ==
    /\ channel_is_normalized(T, RgbKinds[1], c[1])
    /\ channel_is_normalized(T, RgbKinds[2], c[2])
    /\ channel_is_normalized(T, RgbKinds[3], c[3])

\* Rgb::lerp whose green channel is interpolated from self.red.
RgbLerpGreenFromRed(T, left, rgt, t) ==
    <<channel_lerp(T, left[1], rgt[1], t),
      channel_lerp(T, left[1], rgt[2], t),
      channel_lerp(T, left[3], rgt[3], t)>>

rgb_lerp(T, left, rgt, t) ==
    <<channel_lerp(T, left[1], rgt[1], t),
      channel_lerp(T, left[2], rgt[2], t),
      channel_lerp(T, left[3], rgt[3], t)>>

(***************************************************************************)
(* BareYCbCr: invert and lerp, channel by channel.                         *)
(***************************************************************************)
ycbcr_invert(T, c) ==
    <<channel_invert(T, YCbCrKinds[1], c[1]),
      channel_invert(T, YCbCrKinds[2], c[2]),
      channel_invert(T, YCbCrKinds[3], c[3])>>

ycbcr_lerp(T, left, rgt, t) ==
    <<channel_lerp(T, left[1], rgt[1], t),
      channel_lerp(T, left[2], rgt[2], t),
      channel_lerp(T, left[3], rgt[3], t)>>

(***************************************************************************)
(* invert called on an arbitrary colour, and again on its result.          *)
(***************************************************************************)
InvertF32Values == F32Values \cup {<<-1, 0>>, <<-1, -1>>}

InvertColors(T) ==
    IF T = "u8" THEN Colors(T)
    ELSE InvertF32Values \X InvertF32Values \X InvertF32Values

InitInvert ==
    /\ storage \in {"u8", "f32"}
    /\ self \in InvertColors(storage)
    /\ overflow_checks = TRUE
    /\ Unused
    /\ op = "new"
    /\ out = NoCall

RgbInvert ==
    /\ op \in {"new", "rgb_invert"}
    /\ op' = IF op = "new" THEN "rgb_invert" ELSE "rgb_invert_invert"
    /\ out' = Ok(rgb_invert(storage, IF op = "new" THEN self ELSE out.val))
    /\ UNCHANGED <<storage, self, right, pos, model, out_of_gamut_mode, overflow_checks>>

YCbCrInvert ==
    /\ op \in {"new", "ycbcr_invert"}
    /\ op' = IF op = "new" THEN "ycbcr_invert" ELSE "ycbcr_invert_invert"
    /\ out' = Ok(ycbcr_invert(storage, IF op = "new" THEN self ELSE out.val))
    /\ UNCHANGED <<storage, self, right, pos, model, out_of_gamut_mode, overflow_checks>>

NextInvert == RgbInvert \/ YCbCrInvert

SpecInvert == InitInvert /\ [][NextInvert]_vars

\* |x - y| <= 2^-22 * max(|a|, |b|): four units in the last place of the
\* larger operand.
F32Close(x, y, a, b) ==
    LET d == FAbs(FSub(x, y))
        m == IF FLt(FAbs(a), FAbs(b)) THEN FAbs(b) ELSE FAbs(a)
    IN  ~FLt(FMul(<<1, -22>>, m), d)

Inverted2 == op \in {"rgb_invert_invert", "ycbcr_invert_invert"}

\* C6: invert is an involution on Rgb and on YCbCr colours, invert(invert(x))
\* = x, exactly for integer storage and up to float rounding (2^-22 of the
\* channel's range) for f32; for 8-bit channels invert maps (200,0,255) to
\* (55,255,0).
C6_InvertInvolution ==
    /\ (Inverted2 /\ storage = "u8") => out.val = self
    /\ (Inverted2 /\ storage = "f32") =>
           \A i \in 1 .. 3 : F32Close(out.val[i], self[i], self[i], <<1, 0>>)
    /\ (op = "rgb_invert" /\ storage = "u8" /\ self = <<200, 0, 255>>)
           => out.val = <<55, 255, 0>>

C6_Witness ==
    /\ op = "rgb_invert_invert"
    /\ storage = "u8"
    /\ self = <<200, 0, 255>>
    /\ out.val = <<200, 0, 255>>

(***************************************************************************)
(* lerp called once on two arbitrary colours at a position in [0, 1].      *)
(***************************************************************************)
PosBits == 2

\* k / 2^PosBits, 0 to 1: the same values as f64 and as f32 positions.
Positions == {FCanon(k, -PosBits) : k \in 0 .. Pow2(PosBits)}

LerpU8Colors ==
    {<<0, 0, 0>>, <<255, 255, 255>>, <<100, 200, 0>>, <<200, 0, 255>>,
     <<55, 127, 150>>, <<255, 0, 100>>, <<1, 254, 128>>, <<127, 150, 200>>}

\* The f32 values nearest 0.1, 0.2 and 0.8.
F32Tenth == <<13421773, -27>>

F32Fifth == <<13421773, -26>>

F32FourFifths == <<13421773, -24>>

LerpF32Colors ==
    {<<F32Fifth, <<1, -1>>, <<1, 0>>>>, <<F32FourFifths, <<1, -1>>, F32Tenth>>,
     <<<<1, 0>>, <<1, -30>>, <<0, 0>>>>, <<<<1, -30>>, <<1, 0>>, <<3, -2>>>>,
     <<<<0, 0>>, <<-1, 0>>, <<1, -2>>>>, <<<<1, -2>>, <<1, 0>>, <<-1, -1>>>>}

LerpColors(T) == IF T = "u8" THEN LerpU8Colors ELSE LerpF32Colors

InitLerp ==
    /\ storage \in {"u8", "f32"}
    /\ self \in LerpColors(storage)
    /\ right \in LerpColors(storage)
    /\ pos \in Positions
    /\ overflow_checks = TRUE
    /\ model = "none"
    /\ out_of_gamut_mode = "Preserve"
    /\ op = "new"
    /\ out = NoCall

RgbLerp ==
    /\ op = "new"
    /\ op' = "rgb_lerp"
    /\ out' = Ok(rgb_lerp(storage, self, right, pos))
    /\ UNCHANGED <<storage, self, right, pos, model, out_of_gamut_mode, overflow_checks>>

YCbCrLerp ==
    /\ op = "new"
    /\ op' = "ycbcr_lerp"
    /\ out' = Ok(ycbcr_lerp(storage, self, right, pos))
    /\ UNCHANGED <<storage, self, right, pos, model, out_of_gamut_mode, overflow_checks>>

NextLerp == RgbLerp \/ YCbCrLerp

SpecLerp == InitLerp /\ [][NextLerp]_vars

Lerped == op \in {"rgb_lerp", "ycbcr_lerp"}

\* The real-valued interpolation v1 + (v2 - v1) * t of u8 channel i.
ExactLerp(i) ==
    F64Add(FCanon(self[i], 0), F64Mul(F64Sub(FCanon(right[i], 0), FCanon(self[i], 0)), pos))

RoundHalfAway(x) == F64Trunc(F64Add(x, <<1, -1>>))

LerpError(i) == FAbs(F64Sub(FCanon(out.val[i], 0), ExactLerp(i)))

C9_LerpWithinOne ==
    (Lerped /\ storage = "u8") =>
        /\ \A i \in 1 .. 3 :
               /\ ~F64Lt(<<1, 0>>, FAbs(F64Sub(FCanon(out.val[i], 0), ExactLerp(i))))
               /\ out.val[i] \in 0 .. ChanMax
        /\ (self = <<100, 200, 0>> /\ right = <<200, 0, 255>> /\ pos = <<1, -1>>)
               => out.val = <<150, 100, 127>>

C9_Witness ==
    /\ op = "rgb_lerp"
    /\ storage = "u8"
    /\ self = <<100, 200, 0>>
    /\ right = <<200, 0, 255>>
    /\ pos = <<1, -1>>
    /\ out.val = <<150, 100, 127>>

(***************************************************************************)
(* YCbCr models: a forward 3x3 transform, its inverse and a shift in the   *)
(* storage type.  The core reads them and validates nothing about them.    *)
(* The entries are f64 values.                                             *)
(***************************************************************************)
Row(a, b, c) == <<a, b, c>>

IdentityMatrix ==
    <<Row(<<1, 0>>, <<0, 0>>, <<0, 0>>),
      Row(<<0, 0>>, <<1, 0>>, <<0, 0>>),
      Row(<<0, 0>>, <<0, 0>>, <<1, 0>>)>>

\* Luma (R + 2G + B) / 4 with the two chroma differences G - luma and
\* (R - B) / 2.
YCgCoForward ==
    <<Row(<<1, -2>>, <<1, -1>>, <<1, -2>>),
      Row(<<-1, -2>>, <<1, -1>>, <<-1, -2>>),
      Row(<<1, -1>>, <<0, 0>>, <<-1, -1>>)>>

YCgCoInverse ==
    <<Row(<<1, 0>>, <<-1, 0>>, <<1, 0>>),
      Row(<<1, 0>>, <<1, 0>>, <<0, 0>>),
      Row(<<1, 0>>, <<-1, 0>>, <<-1, 0>>)>>

ModelOf(name) ==
    CASE name = "identity" ->
           [forward |-> IdentityMatrix, inverse |-> IdentityMatrix,
            shift |-> <<<<0, 0>>, <<0, 0>>, <<0, 0>>>>]
      [] name = "ycgco" ->
           [forward |-> YCgCoForward, inverse |-> YCgCoInverse,
            shift |-> <<<<0, 0>>, <<0, 0>>, <<0, 0>>>>]
      [] name = "ycgco_shifted" ->
           [forward |-> YCgCoForward, inverse |-> YCgCoInverse,
            shift |-> <<<<1, -4>>, <<1, -1>>, <<1, -1>>>>]
      [] name = "not_inverse" ->
           [forward |-> YCgCoForward, inverse |-> IdentityMatrix,
            shift |-> <<<<0, 0>>, <<0, 0>>, <<0, 0>>>>]
      [] name = "identity_u8" ->
           [forward |-> IdentityMatrix, inverse |-> IdentityMatrix, shift |-> <<0, 0, 0>>]
      [] name = "identity_mid_u8" ->
           [forward |-> IdentityMatrix, inverse |-> IdentityMatrix, shift |-> <<0, 128, 128>>]
      [] name = "ycgco_u8" ->
           [forward |-> YCgCoForward, inverse |-> YCgCoInverse, shift |-> <<0, 128, 128>>]

Models(T) ==
    IF T = "u8" THEN {"identity_u8", "identity_mid_u8", "ycgco_u8"}
    ELSE {"identity", "ycgco", "ycgco_shifted", "not_inverse"}

\* Matrix times vector, in f64.
Dot(row, v) ==
    F64Add(F64Add(F64Mul(row[1], v[1]), F64Mul(row[2], v[2])), F64Mul(row[3], v[3]))

transform_vector(m, v) == <<Dot(m[1], v), Dot(m[2], v), Dot(m[3], v)>>

\* inverse * forward is the identity.
Column(m, j) == <<m[1][j], m[2][j], m[3][j]>>

IsInverse(m) ==
    \A j \in 1 .. 3 :
        transform_vector(m.inverse, Column(m.forward, j)) = Column(IdentityMatrix, j)

(***************************************************************************)
(* Numeric casts.                                                          *)
(***************************************************************************)
\* num::cast::<_, f64>(x).unwrap(): every storage value is an f64.
ToF64(T, x) == IF T = "u8" THEN FCanon(x, 0) ELSE x

\* num::cast(x) from f64 into T: into u8, None when x, truncated, is not a
\* u8; into f32, x rounded.
CastFromF64(T, x) ==
    IF T = "u8"
    THEN IF F64Lt(<<-1, 0>>, x) /\ F64Lt(x, FCanon(ChanModulus, 0))
         THEN [some |-> TRUE, val |-> F64Trunc(x)]
         ELSE [some |-> FALSE, val |-> <<>>]
    ELSE [some |-> TRUE,
          val |-> IF x[1] = 0 THEN <<0, 0>> ELSE FRound(FSign(x), Abs(x[1]), x[2], FALSE)]

\* The transform applied to a triple of T: in floating point, the result
\* cast into T.
transform_vector_T(T, m, v) ==
    LET t == transform_vector(m, <<ToF64(T, v[1]), ToF64(T, v[2]), ToF64(T, v[3])>>)
    IN  <<CastFromF64(T, t[1]), CastFromF64(T, t[2]), CastFromF64(T, t[3])>>

(***************************************************************************)
(* BareYCbCr::from_rgb_and_model and BareYCbCr::to_rgb.                    *)
(***************************************************************************)
from_rgb_and_model(T, from, m, checks) ==
    LET t == transform_vector_T(T, m.forward, from)
    IN  IF t[1].some /\ t[2].some /\ t[3].some
        THEN LET y  == Add(T, t[1].val, m.shift[1], checks)
                 cb == Add(T, t[2].val, m.shift[2], checks)
                 cr == Add(T, t[3].val, m.shift[3], checks)
             IN  IF y.ok /\ cb.ok /\ cr.ok THEN Ok(<<y.val, cb.val, cr.val>>) ELSE Panic
        ELSE Panic

ShiftedColor(T, ycc, m) ==
    <<F64Sub(ToF64(T, ycc[1]), ToF64(T, m.shift[1])),
      F64Sub(ToF64(T, ycc[2]), ToF64(T, m.shift[2])),
      F64Sub(ToF64(T, ycc[3]), ToF64(T, m.shift[3]))>>

\* The three casts of the inverse-transformed triple, each possibly None.
CastTriple(T, ycc, m) ==
    LET rgb == transform_vector(m.inverse, ShiftedColor(T, ycc, m))
    IN  <<CastFromF64(T, rgb[1]), CastFromF64(T, rgb[2]), CastFromF64(T, rgb[3])>>

GamutPolicy(T, rgb, mode) == IF mode = "Clip" THEN rgb_normalize(T, rgb) ELSE rgb

to_rgb(T, ycc, m, mode) ==
    LET c == CastTriple(T, ycc, m)
    IN  IF c[1].some /\ c[2].some /\ c[3].some
        THEN Ok(GamutPolicy(T, <<c[1].val, c[2].val, c[3].val>>, mode))
        ELSE Panic

(***************************************************************************)
(* One conversion: to_rgb of an arbitrary YCbCr value, or                  *)
(* from_rgb_and_model of an arbitrary RGB triple followed, when it         *)
(* returned, by to_rgb of the result.                                      *)
(***************************************************************************)
ConvF32Values == {<<-1, -1>>, <<0, 0>>, <<1, -2>>, <<1, 0>>, <<3, -1>>}

ConvValues(T) == IF T = "u8" THEN U8Values ELSE ConvF32Values

InitConv ==
    /\ storage \in {"u8", "f32"}
    /\ self \in ConvValues(storage) \X ConvValues(storage) \X ConvValues(storage)
    /\ model \in Models(storage)
    /\ out_of_gamut_mode \in {"Preserve", "Clip"}
    /\ overflow_checks \in (IF storage = "u8" THEN BOOLEAN ELSE {TRUE})
    /\ right = <<0, 0, 0>>
    /\ pos = <<0, 0>>
    /\ op = "new"
    /\ out = NoCall

FromRgb ==
    /\ op = "new"
    /\ op' = "from_rgb_and_model"
    /\ out' = from_rgb_and_model(storage, self, ModelOf(model), overflow_checks)
    /\ UNCHANGED <<storage, self, right, pos, model, out_of_gamut_mode, overflow_checks>>

ToRgb ==
    /\ op \in {"new", "from_rgb_and_model"}
    /\ out.ok
    /\ op' = IF op = "new" THEN "to_rgb" ELSE "round_trip"
    /\ out' = to_rgb(storage, IF op = "new" THEN self ELSE out.val,
                     ModelOf(model), out_of_gamut_mode)
    /\ UNCHANGED <<storage, self, right, pos, model, out_of_gamut_mode, overflow_checks>>

NextConv == FromRgb \/ ToRgb

SpecConv == InitConv /\ [][NextConv]_vars

\* The same colour: equal channels for u8, channels within float rounding
\* for f32.
SameColor(T, x, y) ==
    IF T = "u8" THEN x = y
    ELSE \A i \in 1 .. 3 : F32Close(x[i], y[i], y[i], <<1, 0>>)

\* C3: for every RGB triple and every model whose inverse transform is the
\* inverse of its forward transform, to_rgb(from_rgb_and_model(rgb, model),
\* model, Preserve) is the original rgb, within tolerance.
C3_RoundTrip ==
    (out_of_gamut_mode = "Preserve" /\ IsInverse(ModelOf(model))) =>
        /\ op = "from_rgb_and_model" => out.ok
        /\ op = "round_trip" => (out.ok /\ SameColor(storage, out.val, self))

Converted == op \in {"to_rgb", "round_trip"}

\* The triple to_rgb converted: self, or the result of from_rgb_and_model.
ConvInput ==
    IF op = "to_rgb" THEN self
    ELSE from_rgb_and_model(storage, self, ModelOf(model), overflow_checks).val

\* C4: for every YCbCr value and every model, to_rgb with Clip returns an
\* Rgb for which is_normalized() is true, and to_rgb with Preserve returns
\* the cast triple unchanged (which may be one for which is_normalized() is
\* false).
C4_ClipNormalizes ==
    Converted =>
        /\ out.ok
        /\ out_of_gamut_mode = "Clip" => rgb_is_normalized(storage, out.val)
        /\ out_of_gamut_mode = "Preserve" =>
               \A i \in 1 .. 3 :
                   out.val[i] = CastTriple(storage, ConvInput, ModelOf(model))[i].val

\* C5: to_rgb is total: for every YCbCr value, model and gamut policy it
\* returns an Rgb; a value outside the range of the storage type saturates
\* in the cast and never aborts the conversion.
C5_ToRgbTotal == Converted => out.ok

====
